---- MODULE Spec2Model ----
(***************************************************************************)
(* Dispatch, streaming and plan-approval behaviour of the MahiLLM demo:    *)
(*   - the Node proxy (unnamed/part_001): callPython and the handlers of   *)
(*     /api/index, /api/query, /api/embed, /api/plan, /api/documents,      *)
(*     /api/task/execute and /api/assistant/send;                          *)
(*   - the SSE chat endpoint (server.js): POST /api/chat;                  *)
(*   - the browser automation panel (public/app.js): plan / execute.       *)
(*   - the gRPC-to-SSE bridge /api/assistant/stream, the SSE reading      *)
(*     loops, the bodies forwarded to the backends, the page's stream     *)
(*     inspector and the mock plan generators (part_001, part_002).       *)
(* Every async handler is cut at its await points: one action per          *)
(* continuation.                                                           *)
(***************************************************************************)
EXTENDS Integers, Sequences, FiniteSets, TLC

VARIABLES
  pythonEnabled,   \* part_001:20  const pythonEnabled = !pythonDisabled
  grpcEnabled,     \* part_001:26,43  grpcEnabled (set together with grpcServices)
  rq,              \* the proxy's in-flight HTTP requests, one record per slot
  bpc,             \* /api/assistant/stream: idle, open (call started), closed
  bout,            \* events written to its response while it was writable
  bended,          \* calls of res.end() on its response
  blate,           \* writes attempted after res.end()
  bfired,          \* which of the call's 'end' / 'error' events have fired
  preader,         \* SSE reading loop observed: "server" (OpenAI stream) or "browser" (/api/chat)
  pevents,         \* the events its upstream wrote, in order
  ptext,           \* the upstream text not yet handed over by reader.read()
  pgot,            \* the events the loop delivered, in order
  planIn,          \* the body of the /api/plan request last answered with a mock plan
  planOut,         \* that plan: the names its steps were built from, and its steps
  stepFinals,      \* the plan executor: final statuses of the steps of one plan
  pyFailures,      \* history: consecutive transport failures of callPython seen by
                   \* an observer of the proxy (the proxy itself keeps no such count)
  \* ---- POST /api/chat (server.js) ----
  apiKey,          \* server.js:50  process.env.OPENAI_API_KEY is set
  envReads,        \* history: when process.env was consulted to pick a backend
  cpc,             \* where the handler of the observed request is suspended
  reqMessages,     \* req.body.messages of the observed request
  mockQueue,       \* words mockStream(reply) has still to yield
  upstream,        \* the OpenAI response body: none/open/ended/failed/stalled
  nread,           \* reader.read() results consumed so far
  sent,            \* SSE events written to res, in order
  statusCode,      \* res.statusCode
  clientOpen,      \* the browser still holds the connection
  sentAtClose,     \* Len(sent) when the client went away (-1: it has not)
  sentAtFail,      \* Len(sent) when reader.read() rejected (-1: it has not)
  \* ---- the automation panel (public/app.js) ----
  lastStarted,           \* history: the slot of the page's most recently started plan or execute request (0: none)
  lastAnswer,            \* history: the 2xx answer that request got, once its handler has continued
  latestAutomationPlan,  \* app.js:59
  autoRunDisabled,       \* autoRunBtn.disabled
  autoRunHidden,         \* autoRunBtn.hidden
  API_DIRECT,            \* app.js: window.MAHI_APP_CONFIG.API_DIRECT
  mapIn,                 \* the path last given to mapApiPath
  mapOut,                \* what mapApiPath returned for it
  fwdOp,                 \* the operation last forwarded ("none" before the first)
  fwdIn,                 \* its body as posted
  fwdFirst,              \* its body as sent to Python by the proxy
  fwdSecond,             \* its body as sent to gRPC on fallback, or to FastAPI in direct mode
  streamAbortController, \* app.js: 0 for null, else the submit whose controller it is
  streamStopDisabled,    \* streamStopBtn.disabled
  streams,               \* the submit handlers of the stream form, in order of start
  demoRuns               \* the static demo page (part_006): the prompts answered by
                         \* demoFallback and the answers, in order

bridgeVars == <<bpc, bout, bended, blate, bfired>>

mockVars == <<planIn, planOut>>

proxyVars == <<pythonEnabled, grpcEnabled, rq, pyFailures, stepFinals, bridgeVars, mockVars>>

parseVars == <<preader, pevents, ptext, pgot>>

chatVars == <<apiKey, envReads, cpc, reqMessages, mockQueue, upstream, nread, sent, statusCode,
              clientOpen, sentAtClose, sentAtFail, parseVars>>

fwdVars == <<fwdOp, fwdIn, fwdFirst, fwdSecond>>

streamVars == <<streamAbortController, streamStopDisabled, streams>>

pageVars == <<API_DIRECT, mapIn, mapOut, demoRuns, fwdVars, streamVars>>

startedVars == <<lastStarted, lastAnswer>>

uiVars == <<latestAutomationPlan, autoRunDisabled, autoRunHidden, startedVars, pageVars>>

vars == <<proxyVars, chatVars, uiVars>>

(***************************************************************************)
(* Bounds                                                                  *)
(***************************************************************************)
MaxCalls == 2          \* concurrent requests the proxy is observed with
MaxChunks == 2         \* reader.read() results carrying data, per response
MaxLines == 2          \* lines per chunk
MaxClients == 2        \* requests of other HTTP clients observed at a time
MaxSegments == 2       \* segments of a request path after its first
MaxSteps == 4           \* steps of an executed plan
MaxRuns == 2           \* prompts the demo page answers before it is reloaded

Slots == 1..MaxCalls

(***************************************************************************)
(* The proxy: capabilities and backend outcomes                            *)
(***************************************************************************)
\* Endpoints that try Python first and then the gRPC service.
FallbackCaps == {"index", "query", "embed"}
\* Endpoints served by callPython alone.
PythonCaps == {"plan", "execute", "documents"}
\* Endpoints served by the gRPC service alone.
GrpcCaps == {"send"}
Caps == FallbackCaps \cup PythonCaps \cup GrpcCaps

\* What one fetch() to the Python service can end in:
\*   ok         2xx response, body read
\*   preflight  fetch rejects before anything is transmitted (ECONNREFUSED)
\*   ambiguous  the request was transmitted, then fetch()/response.text()
\*              rejects (socket reset, timeout, unreadable body)
\*   rejected / unauth / overloaded   a non-2xx response (422 / 401 / 503)
PyOutcomes == {"ok", "preflight", "ambiguous", "rejected", "unauth", "overloaded"}
PyTransportFailures == {"preflight", "ambiguous"}
PyDeclined == {"rejected", "unauth", "overloaded"}

GrpcOutcomes == {"ok", "error"}

\* response.status of a non-2xx answer of the Python service
HttpStatusOf(out) ==
  CASE out = "rejected" -> 422
    [] out = "unauth" -> 401
    [] out = "overloaded" -> 503
    [] OTHER -> 200

\* The error callPython throws, as {status, message, payload}; status 0 and
\* payload "" stand for the absent (undefined / null) property.
PythonError(out) ==
  CASE out = "disabled" ->
         [status |-> 503, message |-> "python_disabled", payload |-> ""]
    [] out \in PyTransportFailures ->
         [status |-> 0, message |-> "fetch failed", payload |-> ""]
    [] OTHER ->
         [status |-> HttpStatusOf(out),
          message |-> "python_assistant_error",
          payload |-> "backend_payload"]

\* err?.status || dflt
StatusOr(err, dflt) == IF err.status # 0 THEN err.status ELSE dflt

\* err?.payload || err?.message || 'unknown_error'
DetailsOf(err) ==
  IF err.payload # "" THEN err.payload
  ELSE IF err.message # "" THEN err.message ELSE "unknown_error"

(***************************************************************************)
(* Plans, approvals and JSON bodies                                        *)
(***************************************************************************)
Step(id, rc) == [id |-> id, requires_confirmation |-> rc]

ExamplePlan == <<Step("s1", FALSE), Step("s2", TRUE)>>

\* The plans the Python planner answers with: step ids are unique within a
\* plan; a plan may have no steps.
PlannerPlans ==
  { <<>>,
    <<Step("s1", FALSE)>>,
    ExamplePlan,
    <<Step("s1", TRUE), Step("s2", TRUE)>> }

\* A JSON value with an optional .plan: {plan: {steps}} or no plan at all.
WithPlan(steps) == [hasPlan |-> TRUE, steps |-> steps]
NoPlan == [hasPlan |-> FALSE, steps |-> <<>>]

EmptyApprovals == [id \in {} |-> TRUE]

\* A request body; absent properties are "", {}, NoPlan and the empty map.
NoBody == [goal |-> "", sources |-> {}, plan |-> NoPlan, approvals |-> EmptyApprovals]

PlanBody(goal, sources) == [NoBody EXCEPT !.goal = goal, !.sources = sources]

ExecuteBody(plan, approvals) == [NoBody EXCEPT !.plan = plan, !.approvals = approvals]

\* The body /api/task/execute forwards to /v1/task/execute:
\* {plan: req.body?.plan, approvals: req.body?.approvals || {}}
ExecutePayload(body) == [plan |-> body.plan, approvals |-> body.approvals]

SourceOrder == <<"email", "calendar", "messages", "browser">>

MockIds == <<"mock-1", "mock-2", "mock-3", "mock-4", "mock-5">>

\* The step list of the mock plan of /api/plan: the goal step, then one step
\* per enabled source in the fixed order, or the single Idle step.
MockStepNames(body) ==
  LET g == IF body.goal # "" THEN <<"Understand goal">> ELSE <<>>
      src == SelectSeq(SourceOrder, LAMBDA x : x \in body.sources)
      all == g \o src
  IN IF all = <<>> THEN <<"Idle">> ELSE all

\* steps.map((s, idx) => ({id: `mock-${idx + 1}`, requires_confirmation: false}))
MockPlan(body) ==
  WithPlan([k \in 1..Len(MockStepNames(body)) |-> Step(MockIds[k], FALSE)])

NoResp == [status |-> 0, error |-> "", details |-> "", source |-> "", payload |-> NoPlan]

Json(src, payload) ==
  [status |-> 200, error |-> "", details |-> "", source |-> src, payload |-> payload]

ErrorJson(st, e, d) ==
  [status |-> st, error |-> e, details |-> d, source |-> "proxy", payload |-> NoPlan]

\* What window.confirm returned, by step position (none asked: empty).
NoAnswers == [k \in {} |-> TRUE]

FreeSlot ==
  [pc |-> "free", cap |-> "", origin |-> "", body |-> NoBody, answers |-> NoAnswers,
   py |-> "none", grpc |-> "none", invoked |-> <<>>, resp |-> NoResp, nresp |-> 0]

\* grpcEnabled && grpcServices
GrpcReady == grpcEnabled

\* res.status(...).json(...) / res.json(...): the request is answered.
Respond(r, resp) == [r EXCEPT !.pc = "done", !.resp = resp, !.nresp = @ + 1]

\* const response = await callPython(...) past the pythonEnabled test: the
\* fetch is issued and the handler suspends.
AwaitPython(r) == [r EXCEPT !.pc = "python", !.invoked = Append(@, "python")]

\* client.Index / client.Query / client.Embed / client.Send (..., callback)
AwaitGrpc(r) == [r EXCEPT !.pc = "grpc", !.invoked = Append(@, "grpc")]

\* A catch block whose mock plan is answered without the metadata.source tag.
PythonOnlyCatch_Untagged(r, err) ==
  CASE r.cap = "plan" ->
         IF GrpcReady
           THEN Respond(r, Json("", MockPlan(r.body)))
           ELSE Respond(r, ErrorJson(StatusOr(err, 500), "plan_failed", DetailsOf(err)))
    [] r.cap = "documents" ->
         Respond(r, ErrorJson(StatusOr(err, 503), "documents_failed", DetailsOf(err)))
    [] OTHER ->
         Respond(r, ErrorJson(StatusOr(err, 500), "execute_failed", DetailsOf(err)))

\* The catch block of a Python-only handler.
PythonOnlyCatch(r, err) ==
  CASE r.cap = "plan" ->
         IF GrpcReady
           THEN Respond(r, Json("mock", MockPlan(r.body)))
           ELSE Respond(r, ErrorJson(StatusOr(err, 500), "plan_failed", DetailsOf(err)))
    [] r.cap = "documents" ->
         Respond(r, ErrorJson(StatusOr(err, 503), "documents_failed", DetailsOf(err)))
    [] OTHER ->
         Respond(r, ErrorJson(StatusOr(err, 500), "execute_failed", DetailsOf(err)))

\* The tail of the index/query/embed handlers, after the Python attempt.
GrpcTail(r) ==
  IF ~GrpcReady
    THEN Respond(r, ErrorJson(503, "assistant_unavailable", "hint"))
    ELSE AwaitGrpc(r)

\* error: 'index_failed' | 'query_failed' | 'embed_failed'
FailedName(cap) ==
  CASE cap = "index" -> "index_failed"
    [] cap = "query" -> "query_failed"
    [] OTHER -> "embed_failed"

\* A catch block that answers the Python error and, its return forgotten,
\* still goes on to gRPC.
FallbackCatch_RespondAndContinue(r, err) ==
  IF ~GrpcReady
    THEN Respond(r, ErrorJson(StatusOr(err, 500), FailedName(r.cap), DetailsOf(err)))
    ELSE GrpcTail(Respond(r, ErrorJson(StatusOr(err, 500), FailedName(r.cap),
                                       DetailsOf(err))))

\* A handler that answers with the Python error whatever the gRPC wiring is.
FallbackCatch_NoAdvance(r, err) ==
  Respond(r, ErrorJson(StatusOr(err, 500), FailedName(r.cap), DetailsOf(err)))

\* The catch block of the index/query/embed handlers: with gRPC wired it
\* answers nothing and control falls out of the if (pythonEnabled) block.
FallbackCatch(r, err) ==
  IF ~GrpcReady
    THEN Respond(r, ErrorJson(StatusOr(err, 500), FailedName(r.cap), DetailsOf(err)))
    ELSE GrpcTail(r)

\* The handler's synchronous prefix, up to its first await or its answer.
StartHandler(r) ==
  CASE r.cap \in FallbackCaps ->
         IF pythonEnabled THEN AwaitPython(r) ELSE GrpcTail(r)
    [] r.cap \in PythonCaps ->
         IF pythonEnabled
           THEN AwaitPython(r)
           ELSE PythonOnlyCatch([r EXCEPT !.py = "disabled"], PythonError("disabled"))
    [] OTHER ->
         IF ~GrpcReady
           THEN Respond(r, ErrorJson(503, "grpc_disabled", "hint"))
           ELSE AwaitGrpc(r)

\* What a 2xx answer of the Python service can carry for this request: a
\* plan for /v1/task; for /v1/task/execute a report that echoes the plan or
\* one that does not.
PythonPayloads(r) ==
  CASE r.cap = "plan" -> {WithPlan(st) : st \in PlannerPlans}
    [] r.cap = "execute" -> {NoPlan, r.body.plan}
    [] OTHER -> {NoPlan}

\* The continuation after await callPython(...) settles with `out`.
AfterPython(r0, out, payload) ==
  LET r == [r0 EXCEPT !.py = out] IN
  IF out = "ok"
    THEN Respond(r, Json("python", payload))
    ELSE IF r.cap \in FallbackCaps
           THEN FallbackCatch(r, PythonError(out))
           ELSE PythonOnlyCatch(r, PythonError(out))

\* The gRPC callback (err, resp).
AfterGrpc(r0, out) ==
  LET r == [r0 EXCEPT !.grpc = out] IN
  IF out = "error"
    THEN Respond(r, ErrorJson(500, "grpc_error", "err.message"))
    ELSE Respond(r, Json("grpc", NoPlan))

(***************************************************************************)
(* Proxy actions                                                           *)
(***************************************************************************)
ProxyIdle ==
  /\ rq = [i \in Slots |-> FreeSlot]
  /\ pyFailures = 0
  /\ stepFinals = <<>>
  /\ planIn = <<>> /\ planOut = <<>>
  /\ bpc = "idle"
  /\ bout = <<>>
  /\ bended = 0
  /\ blate = 0
  /\ bfired = {}

\* No /api/chat request has arrived.
ChatIdle ==
  /\ cpc = "idle"
  /\ envReads = {"startup"}
  /\ reqMessages = [isArray |-> FALSE, items |-> <<>>]
  /\ mockQueue = <<>>
  /\ upstream = "none"
  /\ nread = 0
  /\ sent = <<>>
  /\ statusCode = 200
  /\ clientOpen = TRUE
  /\ sentAtClose = -1
  /\ sentAtFail = -1
  /\ preader = "server"
  /\ pevents = <<>>
  /\ ptext = <<>>
  /\ pgot = <<>>

\* The page as loaded: no plan yet, the Run button not yet offered.
UiIdle ==
  /\ latestAutomationPlan = NoPlan
  /\ lastStarted = 0 /\ lastAnswer = [set |-> FALSE, payload |-> NoPlan]
  /\ autoRunDisabled = TRUE
  /\ autoRunHidden = TRUE
  /\ API_DIRECT = FALSE
  /\ mapIn = <<>>
  /\ fwdOp = "none" /\ fwdIn = <<>> /\ fwdFirst = <<>> /\ fwdSecond = <<>>
  /\ streamAbortController = 0 /\ streamStopDisabled = TRUE /\ streams = <<>>
  /\ mapOut = [isString |-> TRUE, path |-> <<>>]
  /\ demoRuns = <<>>

ProxyInit ==
  /\ pythonEnabled \in BOOLEAN
  /\ grpcEnabled \in BOOLEAN
  /\ ProxyIdle
  /\ apiKey = FALSE
  /\ ChatIdle
  /\ UiIdle

\* The request bodies other HTTP clients post.
ClientBodies(cap) ==
  CASE cap = "plan" -> {PlanBody("g", {}), PlanBody("", {"email"})}
    [] cap = "execute" ->
         {ExecuteBody(WithPlan(ExamplePlan), a) :
            a \in {EmptyApprovals, [id \in {"s2"} |-> TRUE], [id \in {"s2"} |-> FALSE]}}
    [] OTHER -> {NoBody}

\* The handler of an endpoint starts for a request; the request takes the
\* first unused slot.
Accept(i, cap, origin, body, answers) ==
  /\ rq[i].pc = "free"
  /\ \A j \in 1..(i - 1) : rq[j].pc # "free"
  /\ rq' = [rq EXCEPT ![i] =
              StartHandler([FreeSlot EXCEPT !.cap = cap, !.origin = origin,
                                            !.body = body, !.answers = answers])]
  /\ UNCHANGED <<pythonEnabled, grpcEnabled, pyFailures, stepFinals, bridgeVars, mockVars>>

\* An HTTP client other than the page posts to one endpoint.
ClientRequest(i, cap, body) ==
  /\ Accept(i, cap, "client", body, NoAnswers)
  /\ UNCHANGED <<chatVars, uiVars>>

PythonReturns(i, out, payload) ==
  /\ rq[i].pc = "python"
  /\ rq' = [rq EXCEPT ![i] = AfterPython(rq[i], out, payload)]
  /\ UNCHANGED <<pythonEnabled, grpcEnabled, pyFailures, stepFinals, bridgeVars, mockVars, chatVars, uiVars>>

GrpcReturns(i, out) ==
  /\ rq[i].pc = "grpc"
  /\ rq' = [rq EXCEPT ![i] = AfterGrpc(rq[i], out)]
  /\ UNCHANGED <<pythonEnabled, grpcEnabled, pyFailures, stepFinals, bridgeVars, mockVars, chatVars, uiVars>>

\* The client has read the answer; the connection is gone.
ClientReceives(i) ==
  /\ rq[i].pc = "done" /\ rq[i].origin = "client"
  /\ rq' = [rq EXCEPT ![i] = FreeSlot]
  /\ UNCHANGED <<pythonEnabled, grpcEnabled, pyFailures, stepFinals, bridgeVars, mockVars, chatVars, uiVars>>

\* The Python service answers, or the fetch fails, in one of the ways outs.
PythonProgress(outs) ==
  \E i \in Slots, out \in outs :
    \E payload \in (IF out = "ok" THEN PythonPayloads(rq[i]) ELSE {NoPlan}) :
      PythonReturns(i, out, payload)

\* The steps of the proxy's handlers after their first await.
ProxyProgress ==
  \/ PythonProgress(PyOutcomes)
  \/ \E i \in Slots, out \in GrpcOutcomes : GrpcReturns(i, out)

ProxyNext ==
  \/ \E i \in 1..MaxClients, cap \in Caps :
       \E body \in ClientBodies(cap) : ClientRequest(i, cap, body)
  \/ ProxyProgress
  \/ \E i \in Slots : ClientReceives(i)

SpecProxy == ProxyInit /\ [][ProxyNext]_vars

(***************************************************************************)
(* An observer of the proxy's Python invocations                           *)
(***************************************************************************)
\* Consecutive failures after which a backend counts as Unhealthy.
HealthK == 3

Min(a, b) == IF a < b THEN a ELSE b

\* PythonReturns, with the observer counting: a transport failure adds one,
\* any HTTP answer of the service starts the count again.
ObservedPythonReturns(i, out, payload) ==
  /\ rq[i].pc = "python"
  /\ rq' = [rq EXCEPT ![i] = AfterPython(rq[i], out, payload)]
  /\ pyFailures' = IF out \in PyTransportFailures
                     THEN Min(HealthK, pyFailures + 1)
                     ELSE 0
  /\ UNCHANGED <<pythonEnabled, grpcEnabled, stepFinals, bridgeVars, mockVars, chatVars, uiVars>>

\* One client that sends its requests one after the other.
HealthNext ==
  \/ \E cap \in Caps : \E body \in ClientBodies(cap) : ClientRequest(1, cap, body)
  \/ \E out \in PyOutcomes :
       \E payload \in (IF out = "ok" THEN PythonPayloads(rq[1]) ELSE {NoPlan}) :
         ObservedPythonReturns(1, out, payload)
  \/ \E out \in GrpcOutcomes : GrpcReturns(1, out)
  \/ ClientReceives(1)

SpecHealth == ProxyInit /\ [][HealthNext]_vars

(***************************************************************************)
(* POST /api/chat (server.js): text helpers                                *)
(***************************************************************************)
\* Texts are sequences of one-character strings.
IsSpace(c) == c \in {" ", "\n"}

RECURSIVE TakeRun(_, _)
\* The longest prefix of text whose characters are all spaces (sp = TRUE) or
\* all non-spaces (sp = FALSE).
TakeRun(text, sp) ==
  IF text = <<>> \/ IsSpace(Head(text)) # sp
    THEN <<>>
    ELSE <<Head(text)>> \o TakeRun(Tail(text), sp)

DropFirst(text, n) == SubSeq(text, n + 1, Len(text))

RECURSIVE SplitKeep_DropSpaces(_)
\* text.split(/\s+/): the words only, the whitespace runs dropped.
SplitKeep_DropSpaces(text) ==
  LET w == TakeRun(text, FALSE)
      rest == DropFirst(text, Len(w))
      sp == TakeRun(rest, TRUE)
  IN IF rest = <<>>
       THEN <<w>>
       ELSE <<w>> \o SplitKeep_DropSpaces(DropFirst(rest, Len(sp)))

RECURSIVE SplitKeep(_)
\* text.split(/(\s+)/): the words and, between them, the whitespace runs; a
\* text that starts or ends with whitespace yields an empty first / last word.
SplitKeep(text) ==
  LET w == TakeRun(text, FALSE)
      rest == DropFirst(text, Len(w))
      sp == TakeRun(rest, TRUE)
  IN IF rest = <<>>
       THEN <<w>>
       ELSE <<w, sp>> \o SplitKeep(DropFirst(rest, Len(sp)))

\* The reply templates of server.js:103-105, shortened to their shape:
\* `You said: ${lastUser}. Here's ...!` and "Hello! Ask me anything. ...".
ReplyPrefix == <<"Y", ":", " ">>
ReplySuffix == <<".", " ", "H", "\n", "\n", "-", " ", "!">>
Greeting == <<"H", "!", " ", "A", ".">>

ReplyText(lastUser) ==
  IF lastUser # <<>> THEN ReplyPrefix \o lastUser \o ReplySuffix ELSE Greeting

\* A request body's messages: an array (items) or anything else.  An item is
\* an object {role, content} or null.
Msg(role, content) == [isNull |-> FALSE, role |-> role, content |-> content]
NullMsg == [isNull |-> TRUE, role |-> "", content |-> <<>>]

MessageInputs ==
  { [isArray |-> FALSE, items |-> <<>>],
    [isArray |-> TRUE, items |-> <<>>],
    [isArray |-> TRUE, items |-> <<Msg("user", <<"a">>)>>],
    [isArray |-> TRUE, items |-> <<Msg("user", <<"a", " ", "b">>), Msg("assistant", <<"c">>)>>],
    [isArray |-> TRUE, items |-> <<Msg("user", <<>>), Msg("system", <<"s">>)>>],
    [isArray |-> TRUE, items |-> <<Msg("assistant", <<"c">>)>>],
    [isArray |-> TRUE, items |-> <<NullMsg>>],
    [isArray |-> TRUE, items |-> <<NullMsg, Msg("user", <<"a">>)>>],
    [isArray |-> TRUE, items |-> <<Msg("user", <<"a">>), NullMsg>>] }

RECURSIVE FindLastUser(_, _)
\* [...messages].reverse().find(m => m.role === 'user')?.content || ''
\* reading m.role of a null item throws a TypeError.
FindLastUser(items, k) ==
  IF k = 0 THEN [throws |-> FALSE, content |-> <<>>]
  ELSE IF items[k].isNull THEN [throws |-> TRUE, content |-> <<>>]
  ELSE IF items[k].role = "user" THEN [throws |-> FALSE, content |-> items[k].content]
  ELSE FindLastUser(items, k - 1)

LastUser(m) ==
  IF m.isArray THEN FindLastUser(m.items, Len(m.items))
  ELSE [throws |-> FALSE, content |-> <<>>]

\* sseWrite(res, JSON.stringify({ token })) and ({ done: true })
TokenEvent(src, w) == [type |-> "token", src |-> src, content |-> w, error |-> ""]
DoneEvent == [type |-> "done", src |-> "", content |-> <<>>, error |-> ""]

\* The lines of an upstream chunk:
\*   tok    data: {"choices":[{"delta":{"content": delta}}]}  (delta may be '')
\*   DONE   data: [DONE]
\*   junk   a blank line, a comment, or a data: line JSON.parse rejects
TokLine(delta) == [kind |-> "tok", delta |-> delta]
Lines == {TokLine(<<"x">>), TokLine(<<>>), [kind |-> "DONE", delta |-> <<>>],
          [kind |-> "junk", delta |-> <<>>]}

Chunks == UNION {[1..n -> Lines] : n \in 1..MaxLines}

RECURSIVE ProcessLines(_, _)
\* for (const line of lines) { ... }: what is written, and whether the
\* handler returned at a [DONE].
ProcessLines(lines, out) ==
  IF lines = <<>> THEN [sent |-> out, returned |-> FALSE]
  ELSE LET l == Head(lines) IN
    IF l.kind = "DONE" THEN [sent |-> Append(out, DoneEvent), returned |-> TRUE]
    ELSE IF l.kind = "tok" /\ l.delta # <<>>
      THEN ProcessLines(Tail(lines), Append(out, TokenEvent("openai", l.delta)))
    ELSE ProcessLines(Tail(lines), out)

(***************************************************************************)
(* POST /api/chat: actions                                                 *)
(***************************************************************************)
ChatInit ==
  /\ apiKey \in BOOLEAN
  /\ ChatIdle
  /\ pythonEnabled = TRUE
  /\ grpcEnabled = FALSE
  /\ ProxyIdle
  /\ UiIdle

\* Handler entry: setupSSE, lastUser, then either await fetch(OpenAI) or the
\* first await of mockStream; a TypeError lands in the outer catch.
ChatRequest(m) ==
  /\ cpc = "idle"
  /\ envReads' = envReads \cup {"request"}
  /\ reqMessages' = m
  /\ LET lu == LastUser(m) IN
       IF lu.throws
         THEN /\ cpc' = "done"
              /\ statusCode' = 500
              /\ mockQueue' = <<>>
         ELSE /\ statusCode' = 200
              /\ cpc' = IF apiKey THEN "fetch" ELSE "mock"
              /\ mockQueue' = SplitKeep(ReplyText(lu.content))
  /\ UNCHANGED <<parseVars, apiKey, upstream, nread, sent, clientOpen, sentAtClose, sentAtFail>>
  /\ UNCHANGED <<proxyVars, uiVars>>

\* await fetch(...) settles: rejected, a non-ok response, or a body to read.
FetchReturns(out) ==
  /\ cpc = "fetch"
  /\ IF out = "ok"
       THEN cpc' = "read" /\ upstream' = "open"
       ELSE cpc' = "mock" /\ upstream' = "none"
  /\ UNCHANGED <<parseVars, apiKey, envReads, reqMessages, mockQueue, nread, sent, statusCode, clientOpen,
                 sentAtClose, sentAtFail>>
  /\ UNCHANGED <<proxyVars, uiVars>>

\* reader.read() yields a chunk; its lines are handled in one turn.
ReadChunk(lines) ==
  /\ cpc = "read" /\ upstream = "open"
  /\ nread < MaxChunks
  /\ LET p == ProcessLines(lines, sent) IN
       /\ sent' = p.sent
       /\ cpc' = IF p.returned THEN "done" ELSE "read"
       /\ upstream' = IF p.returned THEN "ended" ELSE "open"
  /\ nread' = nread + 1
  /\ UNCHANGED <<parseVars, apiKey, envReads, reqMessages, mockQueue, statusCode, clientOpen, sentAtClose, sentAtFail>>
  /\ UNCHANGED <<proxyVars, uiVars>>

\* reader.read() yields {done: true}.
ReadEnd ==
  /\ cpc = "read" /\ upstream = "open"
  /\ sent' = Append(sent, DoneEvent)
  /\ cpc' = "done"
  /\ upstream' = "ended"
  /\ UNCHANGED <<parseVars, apiKey, envReads, reqMessages, mockQueue, nread, statusCode, clientOpen, sentAtClose, sentAtFail>>
  /\ UNCHANGED <<proxyVars, uiVars>>

\* reader.read() rejects: the inner catch swallows it and the mock follows.
ReadError ==
  /\ cpc = "read" /\ upstream = "open"
  /\ cpc' = "mock"
  /\ upstream' = "failed"
  /\ sentAtFail' = Len(sent)
  /\ UNCHANGED <<parseVars, apiKey, envReads, reqMessages, mockQueue, nread, sent, statusCode, clientOpen, sentAtClose>>
  /\ UNCHANGED <<proxyVars, uiVars>>

\* The upstream goes silent: no chunk, no end, no error any more.
UpstreamStalls ==
  /\ cpc = "read" /\ upstream = "open"
  /\ upstream' = "stalled"
  /\ UNCHANGED <<parseVars, apiKey, envReads, reqMessages, cpc, mockQueue, nread, sent, statusCode, clientOpen,
                 sentAtClose, sentAtFail>>
  /\ UNCHANGED <<proxyVars, uiVars>>

\* The 30 ms timer of mockStream fires: one word is yielded and written.
MockTick ==
  /\ cpc = "mock" /\ mockQueue # <<>>
  /\ sent' = Append(sent, TokenEvent("mock", Head(mockQueue)))
  /\ mockQueue' = Tail(mockQueue)
  /\ UNCHANGED <<parseVars, apiKey, envReads, reqMessages, cpc, upstream, nread, statusCode, clientOpen, sentAtClose, sentAtFail>>
  /\ UNCHANGED <<proxyVars, uiVars>>

\* The generator is exhausted: the done marker, then res.end().
MockFinish ==
  /\ cpc = "mock" /\ mockQueue = <<>>
  /\ sent' = Append(sent, DoneEvent)
  /\ cpc' = "done"
  /\ UNCHANGED <<parseVars, apiKey, envReads, reqMessages, mockQueue, upstream, nread, statusCode, clientOpen,
                 sentAtClose, sentAtFail>>
  /\ UNCHANGED <<proxyVars, uiVars>>

\* The browser drops the connection while the response is open.  The handler
\* registers no 'close' listener, so nothing else happens.
ClientDisconnect ==
  /\ cpc \in {"fetch", "read", "mock"}
  /\ clientOpen
  /\ clientOpen' = FALSE
  /\ sentAtClose' = Len(sent)
  /\ UNCHANGED <<parseVars, apiKey, envReads, reqMessages, cpc, mockQueue, upstream, nread, sent, statusCode, sentAtFail>>
  /\ UNCHANGED <<proxyVars, uiVars>>

\* The response is over; the next request is observed.
ChatReset ==
  /\ cpc = "done"
  /\ cpc' = "idle"
  /\ mockQueue' = <<>>
  /\ upstream' = "none"
  /\ nread' = 0
  /\ sent' = <<>>
  /\ statusCode' = 200
  /\ clientOpen' = TRUE
  /\ sentAtClose' = -1
  /\ sentAtFail' = -1
  /\ reqMessages' = [isArray |-> FALSE, items |-> <<>>]
  /\ UNCHANGED <<parseVars, apiKey, envReads>>
  /\ UNCHANGED <<proxyVars, uiVars>>

\* The continuations the event loop runs once their promise has settled.
ChatProgress ==
  \/ \E out \in {"ok", "reject", "http_error"} : FetchReturns(out)
  \/ \E lines \in Chunks : ReadChunk(lines)
  \/ ReadEnd
  \/ ReadError
  \/ MockTick
  \/ MockFinish

ChatNext ==
  \/ \E m \in MessageInputs : ChatRequest(m)
  \/ ChatProgress
  \/ UpstreamStalls
  \/ ClientDisconnect
  \/ ChatReset

SpecChat == ChatInit /\ [][ChatNext]_vars

\* Timers fire and settled promises are resumed; a silent upstream is not
\* obliged to speak.
FairSpecChat == SpecChat /\ WF_vars(ChatProgress)

(***************************************************************************)
(* The automation panel (public/app.js)                                    *)
(***************************************************************************)
Put(f, key, v) == [x \in DOMAIN f \cup {key} |-> IF x = key THEN v ELSE f[x]]

\* The positions of the steps window.confirm is shown for.
ConfirmPositions(steps) == {k \in DOMAIN steps : steps[k].requires_confirmation}

RECURSIVE BuildApprovals_AutoApprove(_, _, _, _)
\* A loop that approves every step without looking at the user's answer.
BuildApprovals_AutoApprove(steps, answers, k, acc) ==
  IF k > Len(steps) THEN acc
  ELSE BuildApprovals_AutoApprove(steps, answers, k + 1, Put(acc, steps[k].id, TRUE))

RECURSIVE BuildApprovals(_, _, _, _)
\* for (const step of plan.steps || []) { approvals[step.id] = ... } from
\* step k on, with acc the approvals written so far.
BuildApprovals(steps, answers, k, acc) ==
  IF k > Len(steps) THEN acc
  ELSE LET ok == IF ~steps[k].requires_confirmation THEN TRUE ELSE answers[k]
       IN BuildApprovals(steps, answers, k + 1, Put(acc, steps[k].id, ok))

\* response?.plan?.steps?.length, as a boolean
HasSteps(payload) == payload.hasPlan /\ Len(payload.steps) > 0

\* jsonRequest: res.ok
ResOk(resp) == resp.status >= 200 /\ resp.status < 300

UiInit ==
  /\ pythonEnabled \in BOOLEAN
  /\ grpcEnabled \in BOOLEAN
  /\ ProxyIdle
  /\ apiKey = FALSE
  /\ ChatIdle
  /\ UiIdle

\* The outcomes the page can tell apart: an answer, or a failure.
UiPyOutcomes == {"ok", "ambiguous"}

\* The source checkboxes the user ticks.
SourceChoices == {{}, {"calendar", "browser"}}

\* autoForm submit with an empty goal.
PlanSubmitEmpty ==
  /\ latestAutomationPlan' = NoPlan
  /\ autoRunHidden' = TRUE
  /\ autoRunDisabled' = TRUE
  /\ lastStarted' = 0 /\ lastAnswer' = [set |-> FALSE, payload |-> NoPlan]
  /\ UNCHANGED <<proxyVars, chatVars, pageVars>>

\* autoForm submit with a goal: the button is withdrawn and /api/plan posted.
PlanSubmit(i, sources) ==
  /\ autoRunHidden' = TRUE
  /\ autoRunDisabled' = TRUE
  /\ Accept(i, "plan", "uiPlan", PlanBody("g", sources), NoAnswers)
  /\ lastStarted' = i /\ lastAnswer' = [set |-> FALSE, payload |-> NoPlan]
  /\ UNCHANGED <<latestAutomationPlan, chatVars, pageVars>>

\* The continuation of the submit handler after await jsonRequest('/api/plan').
PlanResponse(i) ==
  /\ rq[i].pc = "done" /\ rq[i].origin = "uiPlan"
  /\ IF ResOk(rq[i].resp)
       THEN /\ latestAutomationPlan' = rq[i].resp.payload
            /\ autoRunHidden' = ~HasSteps(rq[i].resp.payload)
            /\ autoRunDisabled' = ~HasSteps(rq[i].resp.payload)
       ELSE /\ latestAutomationPlan' = NoPlan
            /\ autoRunHidden' = TRUE
            /\ autoRunDisabled' = TRUE
  /\ rq' = [rq EXCEPT ![i] = FreeSlot]
  /\ lastAnswer' = IF i = lastStarted /\ ResOk(rq[i].resp)
                    THEN [set |-> TRUE, payload |-> rq[i].resp.payload] ELSE lastAnswer
  /\ UNCHANGED lastStarted
  /\ UNCHANGED <<pythonEnabled, grpcEnabled, pyFailures, stepFinals, bridgeVars, mockVars, chatVars, pageVars>>

\* A click on the Run button: executeLatestPlan up to its await.  The
\* window.confirm dialogs block, so the approvals and the posted plan are
\* read from one and the same latestAutomationPlan.
RunClick(i, answers) ==
  /\ ~autoRunDisabled /\ ~autoRunHidden
  /\ latestAutomationPlan.hasPlan
  /\ autoRunDisabled' = TRUE
  /\ Accept(i, "execute", "uiExec",
            ExecuteBody(latestAutomationPlan,
                        BuildApprovals(latestAutomationPlan.steps, answers, 1, EmptyApprovals)),
            answers)
  /\ lastStarted' = i /\ lastAnswer' = [set |-> FALSE, payload |-> NoPlan]
  /\ UNCHANGED <<latestAutomationPlan, autoRunHidden, chatVars, pageVars>>

\* The continuation of executeLatestPlan after await jsonRequest(...): the
\* try or the catch branch, then finally.
ExecResponse(i) ==
  /\ rq[i].pc = "done" /\ rq[i].origin = "uiExec"
  /\ latestAutomationPlan' =
       IF ResOk(rq[i].resp) THEN rq[i].resp.payload ELSE latestAutomationPlan
  /\ autoRunDisabled' = FALSE
  /\ autoRunHidden' = ~HasSteps(latestAutomationPlan')
  /\ rq' = [rq EXCEPT ![i] = FreeSlot]
  /\ lastAnswer' = IF i = lastStarted /\ ResOk(rq[i].resp)
                    THEN [set |-> TRUE, payload |-> rq[i].resp.payload] ELSE lastAnswer
  /\ UNCHANGED lastStarted
  /\ UNCHANGED <<pythonEnabled, grpcEnabled, pyFailures, stepFinals, bridgeVars, mockVars, chatVars, pageVars>>

UiNext ==
  \/ PlanSubmitEmpty
  \/ \E i \in Slots, sources \in SourceChoices : PlanSubmit(i, sources)
  \/ \E i \in Slots : PlanResponse(i)
  \/ \E i \in Slots :
       \E answers \in [ConfirmPositions(latestAutomationPlan.steps) -> BOOLEAN] :
         RunClick(i, answers)
  \/ \E i \in Slots : ExecResponse(i)
  \/ PythonProgress(UiPyOutcomes)

SpecUi == UiInit /\ [][UiNext]_vars

(***************************************************************************)
(* The page's endpoint mapping (public/app.js: mapApiPath)                 *)
(***************************************************************************)
\* A path is the sequence of its segments: '/api/task/execute' is
\* <<"api", "task", "execute">>.
SegmentNames ==
  {"plan", "task", "execute", "documents", "index", "query", "embed", "chat",
   "constructor", "toString"}

PathTails == UNION {[1..n -> SegmentNames] : n \in 0..MaxSegments}

Paths == {<<root>> \o t : root \in {"api", "v1"}, t \in PathTails}

\* p.startsWith('/api/')
StartsWithApi(p) == Len(p) >= 2 /\ p[1] = "api"

\* The own properties of the mapping literal.
MappingKeys ==
  {<<"plan">>, <<"task", "execute">>, <<"documents">>, <<"index">>, <<"query">>,
   <<"embed">>}

MappingValue(tail) ==
  CASE tail = <<"plan">> -> <<"v1", "task">>
    [] tail = <<"task", "execute">> -> <<"v1", "task", "execute">>
    [] tail = <<"documents">> -> <<"v1", "documents">>
    [] tail = <<"index">> -> <<"v1", "index">>
    [] tail = <<"query">> -> <<"v1", "query">>
    [] OTHER -> <<"v1", "embed">>

\* Property names every object literal inherits from Object.prototype.
ObjectPrototypeKeys == {<<"constructor">>, <<"toString">>}

AsString(p) == [isString |-> TRUE, path |-> p]
\* A function object: truthy, and not a string.
InheritedFunction == [isString |-> FALSE, path |-> <<>>]

\* mapping[tail] || p : the lookup walks the prototype chain.
MappingLookupOr(tail, p) ==
  IF tail \in MappingKeys THEN AsString(MappingValue(tail))
  ELSE IF tail \in ObjectPrototypeKeys THEN InheritedFunction
  ELSE AsString(p)

mapApiPath(p) ==
  IF ~API_DIRECT THEN AsString(p)
  ELSE IF ~StartsWithApi(p) THEN AsString(p)
  ELSE MappingLookupOr(Tail(p), p)

PageInit ==
  /\ API_DIRECT \in BOOLEAN
  /\ mapIn = <<>>
  /\ fwdOp = "none" /\ fwdIn = <<>> /\ fwdFirst = <<>> /\ fwdSecond = <<>>
  /\ streamAbortController = 0 /\ streamStopDisabled = TRUE /\ streams = <<>>
  /\ mapOut = AsString(<<>>)
  /\ demoRuns = <<>>
  /\ latestAutomationPlan = NoPlan
  /\ lastStarted = 0 /\ lastAnswer = [set |-> FALSE, payload |-> NoPlan]
  /\ autoRunDisabled = TRUE
  /\ autoRunHidden = TRUE
  /\ pythonEnabled = TRUE
  /\ grpcEnabled = FALSE
  /\ ProxyIdle
  /\ apiKey = FALSE
  /\ ChatIdle

\* buildEndpoint(path, query): const mapped = mapApiPath(path)
MapPath(p) ==
  /\ mapIn' = p
  /\ mapOut' = mapApiPath(p)
  /\ UNCHANGED <<streamVars, fwdVars, API_DIRECT, demoRuns, startedVars, latestAutomationPlan, autoRunDisabled, autoRunHidden>>
  /\ UNCHANGED <<proxyVars, chatVars>>

PageNext == \E p \in Paths : MapPath(p)

SpecPage == PageInit /\ [][PageNext]_vars

(***************************************************************************)
(* The static demo page (unnamed/part_006): demoFallback                   *)
(***************************************************************************)
\* samples.length
NumSamples == 3

\* What the user types; the submit handler ignores an empty input.
Prompts == {"a", "b", "c", "d"}

\* generateDemoAnswer(prompt) when Math.floor(Math.random() * samples.length)
\* is rnd: the fixed invitation for an empty prompt, else samples[rnd] with
\* the prompt filled in.
generateDemoAnswer(prompt, rnd) ==
  IF prompt = ""
    THEN [template |-> "ask", prompt |-> ""]
    ELSE [template |-> ToString(rnd), prompt |-> prompt]

DemoInit ==
  /\ demoRuns = <<>>
  /\ API_DIRECT = FALSE
  /\ mapIn = <<>>
  /\ fwdOp = "none" /\ fwdIn = <<>> /\ fwdFirst = <<>> /\ fwdSecond = <<>>
  /\ streamAbortController = 0 /\ streamStopDisabled = TRUE /\ streams = <<>>
  /\ mapOut = AsString(<<>>)
  /\ latestAutomationPlan = NoPlan
  /\ lastStarted = 0 /\ lastAnswer = [set |-> FALSE, payload |-> NoPlan]
  /\ autoRunDisabled = TRUE
  /\ autoRunHidden = TRUE
  /\ pythonEnabled = TRUE
  /\ grpcEnabled = FALSE
  /\ ProxyIdle
  /\ apiKey = FALSE
  /\ ChatIdle

\* A submit on a static host: fetch fails and demoFallback answers.
DemoFallback(prompt, rnd) ==
  /\ Len(demoRuns) < MaxRuns
  /\ demoRuns' = Append(demoRuns, [prompt |-> prompt,
                                   answer |-> generateDemoAnswer(prompt, rnd)])
  /\ UNCHANGED <<streamVars, fwdVars, API_DIRECT, mapIn, mapOut, startedVars, latestAutomationPlan, autoRunDisabled,
                 autoRunHidden>>
  /\ UNCHANGED <<proxyVars, chatVars>>

\* The page is loaded again.
DemoReload ==
  /\ demoRuns # <<>>
  /\ demoRuns' = <<>>
  /\ UNCHANGED <<streamVars, fwdVars, API_DIRECT, mapIn, mapOut, startedVars, latestAutomationPlan, autoRunDisabled,
                 autoRunHidden>>
  /\ UNCHANGED <<proxyVars, chatVars>>

DemoNext ==
  \/ \E prompt \in Prompts, rnd \in 0..(NumSamples - 1) : DemoFallback(prompt, rnd)
  \/ DemoReload

SpecDemo == DemoInit /\ [][DemoNext]_vars

(***************************************************************************)
(* Plan outcome aggregation (the plan executor)                            *)
(***************************************************************************)
\* The statuses a step can end in; a step that was not run (rejected, or
\* never reached) is skipped.
FinalStatuses == {"Succeeded", "Failed", "Skipped"}

Has(finals, st) == \E k \in DOMAIN finals : finals[k] = st

\* Completed iff all steps Succeeded.
IsCompleted(finals) == \A k \in DOMAIN finals : finals[k] = "Succeeded"

\* A rule that calls a plan PartiallyFailed as soon as one step Failed.
IsPartiallyFailed_AnyFailure(finals) == Has(finals, "Failed")

\* PartiallyFailed if at least one Failed and at least one Succeeded / skip.
IsPartiallyFailed(finals) ==
  Has(finals, "Failed") /\ (Has(finals, "Succeeded") \/ Has(finals, "Skipped"))

\* Failed if none succeeded and at least one was attempted.
IsFailed(finals) ==
  /\ ~Has(finals, "Succeeded")
  /\ \E k \in DOMAIN finals : finals[k] \in {"Succeeded", "Failed"}

\* The overall statuses whose rule applies.
PlanStatuses(finals) ==
  {st \in {"Completed", "PartiallyFailed", "Failed"} :
     CASE st = "Completed" -> IsCompleted(finals)
       [] st = "PartiallyFailed" -> IsPartiallyFailed(finals)
       [] OTHER -> IsFailed(finals)}

ExecutorInit ==
  /\ pythonEnabled = TRUE
  /\ grpcEnabled = FALSE
  /\ ProxyIdle
  /\ apiKey = FALSE
  /\ ChatIdle
  /\ UiIdle

\* One more step of the plan reaches its final status.
StepFinishes(st) ==
  /\ Len(stepFinals) < MaxSteps
  /\ stepFinals' = Append(stepFinals, st)
  /\ UNCHANGED <<pythonEnabled, grpcEnabled, rq, pyFailures, bridgeVars, mockVars, chatVars, uiVars>>

\* The executor turns to another plan.
NextPlan ==
  /\ stepFinals # <<>>
  /\ stepFinals' = <<>>
  /\ UNCHANGED <<pythonEnabled, grpcEnabled, rq, pyFailures, bridgeVars, mockVars, chatVars, uiVars>>

ExecutorNext ==
  \/ \E st \in FinalStatuses : StepFinishes(st)
  \/ NextPlan

SpecExecutor == ExecutorInit /\ [][ExecutorNext]_vars

(***************************************************************************)
(* The gRPC-to-SSE bridge (unnamed/part_001): POST /api/assistant/stream   *)
(***************************************************************************)
\* messages.forEach((m, idx) => call.write({id: m.id || ...})): reading m.id
\* of a null item throws.
WriteRequestThrows(m) == m.isArray /\ \E k \in DOMAIN m.items : m.items[k].isNull

\* try { sseWrite(res, ...) } catch {}: the event reaches the response only
\* while it has not been ended.
BridgeWrite(type, text) ==
  IF bended = 0
    THEN bout' = Append(bout, [type |-> type, text |-> text]) /\ blate' = blate
    ELSE bout' = bout /\ blate' = blate + 1

BridgeInit ==
  /\ pythonEnabled = TRUE
  /\ grpcEnabled \in BOOLEAN
  /\ ProxyIdle
  /\ apiKey = FALSE
  /\ ChatIdle
  /\ UiIdle

\* Handler entry.  Without gRPC: 503 grpc_disabled.  With gRPC: setupSSE,
\* the listeners, the request written in the try block (a throw is answered
\* with request_error), call.end().
BridgeRequest(m) ==
  /\ bpc = "idle"
  /\ IF ~GrpcReady
       THEN /\ bpc' = "closed"
            /\ bout' = <<[type |-> "json", text |-> "grpc_disabled"]>>
            /\ bended' = 1
            /\ blate' = blate
       ELSE /\ bpc' = "open"
            /\ IF WriteRequestThrows(m)
                 THEN BridgeWrite("error", "request_error")
                 ELSE UNCHANGED <<bout, blate>>
            /\ bended' = bended
  /\ UNCHANGED bfired
  /\ UNCHANGED <<pythonEnabled, grpcEnabled, rq, pyFailures, stepFinals, mockVars, chatVars, uiVars>>

\* call.on('data')
CallData(payload) ==
  /\ bpc = "open" /\ bfired = {}
  /\ Cardinality({k \in DOMAIN bout : bout[k].type = "msg"}) < MaxChunks
  /\ BridgeWrite("msg", payload)
  /\ UNCHANGED <<bpc, bended, bfired>>
  /\ UNCHANGED <<pythonEnabled, grpcEnabled, rq, pyFailures, stepFinals, mockVars, chatVars, uiVars>>

\* call.on('error')
CallError ==
  /\ bpc = "open" /\ "error" \notin bfired
  /\ BridgeWrite("error", "stream_error")
  /\ bended' = bended + 1
  /\ bfired' = bfired \cup {"error"}
  /\ UNCHANGED bpc
  /\ UNCHANGED <<pythonEnabled, grpcEnabled, rq, pyFailures, stepFinals, mockVars, chatVars, uiVars>>

\* call.on('end')
CallEnd ==
  /\ bpc = "open" /\ "end" \notin bfired
  /\ BridgeWrite("done", "")
  /\ bended' = bended + 1
  /\ bfired' = bfired \cup {"end"}
  /\ UNCHANGED bpc
  /\ UNCHANGED <<pythonEnabled, grpcEnabled, rq, pyFailures, stepFinals, mockVars, chatVars, uiVars>>

\* The call is over; the next request is observed.
BridgeReset ==
  /\ bpc = "closed" \/ (bpc = "open" /\ bfired # {})
  /\ bpc' = "idle"
  /\ bout' = <<>>
  /\ bended' = 0
  /\ blate' = 0
  /\ bfired' = {}
  /\ UNCHANGED <<pythonEnabled, grpcEnabled, rq, pyFailures, stepFinals, mockVars, chatVars, uiVars>>

BridgeNext ==
  \/ \E m \in MessageInputs : BridgeRequest(m)
  \/ \E payload \in {"x", "y", "z"} : CallData(payload)
  \/ CallError
  \/ CallEnd
  \/ BridgeReset

SpecBridge == BridgeInit /\ [][BridgeNext]_vars

(***************************************************************************)
(* The SSE reading loops (server.js reading OpenAI, app.js reading         *)
(* /api/chat).  Text is a sequence of symbols: "data:", " ", the pieces of *)
(* a JSON payload and "\n".                                                *)
(***************************************************************************)
\* The payload of one event as its upstream writes it: {..token..} or the
\* end marker ([DONE] from OpenAI, {"done":true} from /api/chat).
EventPayload(reader, e) ==
  IF e = "done"
    THEN IF reader = "server" THEN <<"[", "DONE", "]">> ELSE <<"{", "done", "}">>
    ELSE <<"{", e, "}">>

\* res.write(`data: ${data}\n\n`)
EventText(reader, e) == <<"data:", " ">> \o EventPayload(reader, e) \o <<"\n", "\n">>

RECURSIVE StreamText(_, _)
StreamText(reader, evs) ==
  IF evs = <<>> THEN <<>> ELSE EventText(reader, Head(evs)) \o StreamText(reader, Tail(evs))

\* chunk.split('\n')
RECURSIVE SplitLines(_)
SplitLines(chunk) ==
  IF \A k \in DOMAIN chunk : chunk[k] # "\n"
    THEN <<chunk>>
    ELSE LET k == CHOOSE j \in DOMAIN chunk :
                    chunk[j] = "\n" /\ \A h \in 1..(j - 1) : chunk[h] # "\n"
         IN  <<SubSeq(chunk, 1, k - 1)>> \o SplitLines(SubSeq(chunk, k + 1, Len(chunk)))

\* line.trim()
RECURSIVE Trim(_)
Trim(line) ==
  IF line = <<>> THEN line
  ELSE IF Head(line) = " " THEN Trim(Tail(line))
  ELSE IF line[Len(line)] = " " THEN Trim(SubSeq(line, 1, Len(line) - 1))
  ELSE line

\* One line of the loop body: the event it delivers, or "none" (no
\* 'data: ' prefix, or JSON.parse throws on an incomplete payload).
ParseLine(reader, line) ==
  LET trimmed == Trim(line)
      data    == SubSeq(trimmed, 3, Len(trimmed))
  IN  IF Len(trimmed) < 2 \/ SubSeq(trimmed, 1, 2) # <<"data:", " ">> THEN "none"
      ELSE IF \E e \in {"a", "b", "done"} : data = EventPayload(reader, e)
             THEN data[2]
             ELSE "none"

\* for (const line of lines) { ... }: the events one chunk delivers; the
\* server returns at [DONE].
RECURSIVE ParseLines(_, _)
ParseLines(reader, lines) ==
  IF lines = <<>> THEN <<>>
  ELSE LET e == ParseLine(reader, Head(lines)) IN
       IF e = "none" THEN ParseLines(reader, Tail(lines))
       ELSE IF e = "DONE" \/ e = "done" THEN <<"done">>
       ELSE <<e>> \o ParseLines(reader, Tail(lines))

RECURSIVE TokenSeqs(_)
TokenSeqs(n) ==
  IF n = 0 THEN {<<>>}
  ELSE TokenSeqs(n - 1) \cup {Append(t, e) : t \in {u \in TokenSeqs(n - 1) : Len(u) = n - 1}, e \in {"a", "b"}}

ParseInit ==
  /\ pythonEnabled = TRUE /\ grpcEnabled = FALSE
  /\ ProxyIdle
  /\ apiKey = TRUE
  /\ cpc = "idle" /\ envReads = {"startup"}
  /\ reqMessages = [isArray |-> FALSE, items |-> <<>>]
  /\ mockQueue = <<>> /\ upstream = "none" /\ nread = 0 /\ sent = <<>>
  /\ statusCode = 200 /\ clientOpen = TRUE /\ sentAtClose = -1 /\ sentAtFail = -1
  /\ preader \in {"server", "browser"}
  /\ pevents \in {Append(t, "done") : t \in TokenSeqs(MaxLines)}
  /\ ptext = StreamText(preader, pevents)
  /\ pgot = <<>>
  /\ UiIdle

\* One turn of while (true): reader.read() hands over the next n symbols of
\* the stream, wherever the transport cut it.
ReadAndParse(n) ==
  /\ ptext # <<>>
  /\ "done" \notin {pgot[k] : k \in DOMAIN pgot}
  /\ n \in 1..Len(ptext)
  /\ pgot' = pgot \o ParseLines(preader, SplitLines(SubSeq(ptext, 1, n)))
  /\ ptext' = SubSeq(ptext, n + 1, Len(ptext))
  /\ UNCHANGED <<preader, pevents>>
  /\ UNCHANGED <<apiKey, envReads, cpc, reqMessages, mockQueue, upstream, nread, sent, statusCode,
                 clientOpen, sentAtClose, sentAtFail>>
  /\ UNCHANGED <<proxyVars, uiVars>>

ParseNext == \E n \in 1..(7 * (MaxLines + 1)) : ReadAndParse(n)

SpecParse == ParseInit /\ [][ParseNext]_vars

(***************************************************************************)
(* Request bodies on their way to a backend.  A JSON object is a function  *)
(* from its keys; "" stands for an absent or falsy value.                  *)
(***************************************************************************)
\* payload.key of req.body || {}
Get(b, k) == IF k \in DOMAIN b THEN b[k] ELSE ""

\* a || b
Or(a, b) == IF a # "" THEN a ELSE b

\* The body the proxy handler of /api/<cap> passes to callPython.
ProxyBody(cap, b) ==
  CASE cap = "plan" ->
         [goal |-> [goal |-> Get(b, "goal"), context |-> Get(b, "context"),
                    sources |-> Get(b, "sources")],
          history |-> IF "history" \in DOMAIN b THEN b.history ELSE <<>>]
    [] cap = "execute" ->
         [plan |-> Get(b, "plan"), approvals |-> Get(b, "approvals")]
    [] cap = "index" ->
         [document_id |-> Or(Get(b, "document_id"), Or(Get(b, "id"), Or(Get(b, "doc_id"), "doc-Date.now()"))),
          text |-> Or(Get(b, "text"), Get(b, "body")),
          metadata |-> Or(Get(b, "metadata"), Get(b, "meta"))]
    [] OTHER ->
         [query |-> Get(b, "query"),
          top_k |-> IF "k" \in DOMAIN b THEN b.k ELSE IF "top_k" \in DOMAIN b THEN b.top_k ELSE 5]

\* const { id = '', text = '' } = req.body || {}; client.Index({ id, text }, ...)
GrpcIndexBody(b) == [id |-> Get(b, "id"), text |-> Get(b, "text")]

\* The request shapes /api/index accepts: any of the id keys and of the text
\* keys, present or not.
IndexShapes ==
  LET full == [document_id |-> "d", id |-> "i", doc_id |-> "o", text |-> "t", body |-> "b"]
  IN  {[k \in K |-> IF v = "same" /\ k \in {"document_id", "id", "doc_id"} THEN "x" ELSE full[k]] :
         K \in SUBSET DOMAIN full, v \in {"same", "distinct"}}

\* The bodies the page's forms pass to jsonRequest.
UiBodies(action) ==
  CASE action = "plan" ->
         {[goal |-> g, sources |-> src, history |-> h] :
            g \in {"g", "h"}, src \in SUBSET {"email", "calendar", "browser"}, h \in {<<>>, <<"m">>}}
    [] action = "execute" ->
         {[plan |-> st, approvals |-> a] :
            st \in PlannerPlans \ {<<>>}, a \in {"", "s1", "s1,s2"}}
    [] action = "index" ->
         {[document_id |-> d, text |-> t, metadata |-> "devtools"] :
            d \in {"d", "doc-Date.now()"}, t \in {"t", "u"}}
    [] OTHER ->
         {[query |-> q, k |-> k] : q \in {"q", "r"}, k \in {1, 5}}

\* The servers and the page after start-up, nothing in flight.
QuiescentInit ==
  /\ pythonEnabled = TRUE /\ grpcEnabled = TRUE
  /\ ProxyIdle
  /\ apiKey = FALSE
  /\ ChatIdle
  /\ UiIdle

\* POST /api/index by any client, Python failing: the body of the Python
\* attempt and the body of the gRPC attempt that follows.
IndexFallsBack(b) ==
  /\ fwdOp' = "index-fallback"
  /\ fwdIn' = b
  /\ fwdFirst' = ProxyBody("index", b)
  /\ fwdSecond' = GrpcIndexBody(b)
  /\ UNCHANGED <<streamVars, API_DIRECT, mapIn, mapOut, demoRuns, startedVars, latestAutomationPlan, autoRunDisabled, autoRunHidden>>
  /\ UNCHANGED <<proxyVars, chatVars>>

\* A form of the page is submitted: what FastAPI receives through the proxy
\* and what it receives in direct mode (jsonRequest sends the body as is).
UiSubmits(action, b) ==
  /\ fwdOp' = action
  /\ fwdIn' = b
  /\ fwdFirst' = ProxyBody(action, b)
  /\ fwdSecond' = b
  /\ UNCHANGED <<streamVars, API_DIRECT, mapIn, mapOut, demoRuns, startedVars, latestAutomationPlan, autoRunDisabled, autoRunHidden>>
  /\ UNCHANGED <<proxyVars, chatVars>>

ForwardNext ==
  \/ \E b \in IndexShapes : IndexFallsBack(b)
  \/ \E action \in {"plan", "execute", "index", "query"} : \E b \in UiBodies(action) : UiSubmits(action, b)

SpecForward == QuiescentInit /\ [][ForwardNext]_vars

(***************************************************************************)
(* The stream inspector of the page (app.js).  A submit handler is         *)
(* "fetching" (awaiting fetch), "reading" (awaiting reader.read()),        *)
(* "aborted" (its signal aborted, the rejection not yet delivered) or      *)
(* "done" (its finally block has run).                                     *)
(***************************************************************************)
\* controller.abort(): the request of that submit is cancelled; its handler
\* learns of it when the pending await rejects.
Abort(h, c) ==
  IF c # 0 /\ h[c].pc \in {"fetching", "reading"} THEN [h EXCEPT ![c].pc = "aborted"] ELSE h

\* streamForm submit, up to await fetch(...).
StreamSubmit ==
  /\ Len(streams) < MaxCalls + 1
  /\ streams' = Append(Abort(streams, streamAbortController), [pc |-> "fetching", log |-> 0])
  /\ streamAbortController' = Len(streams) + 1
  /\ streamStopDisabled' = FALSE
  /\ UNCHANGED <<fwdVars, API_DIRECT, mapIn, mapOut, demoRuns, startedVars, latestAutomationPlan, autoRunDisabled, autoRunHidden>>
  /\ UNCHANGED <<proxyVars, chatVars>>

\* fetch resolves with res.ok and a body.
StreamResponds(i) ==
  /\ streams[i].pc = "fetching"
  /\ streams' = [streams EXCEPT ![i].pc = "reading"]
  /\ UNCHANGED <<streamAbortController, streamStopDisabled>>
  /\ UNCHANGED <<fwdVars, API_DIRECT, mapIn, mapOut, demoRuns, startedVars, latestAutomationPlan, autoRunDisabled, autoRunHidden>>
  /\ UNCHANGED <<proxyVars, chatVars>>

\* reader.read() yields a chunk; its lines are appended to the log.
StreamChunk(i) ==
  /\ streams[i].pc = "reading"
  /\ streams[i].log < MaxChunks
  /\ streams' = [streams EXCEPT ![i].log = @ + 1]
  /\ UNCHANGED <<streamAbortController, streamStopDisabled>>
  /\ UNCHANGED <<fwdVars, API_DIRECT, mapIn, mapOut, demoRuns, startedVars, latestAutomationPlan, autoRunDisabled, autoRunHidden>>
  /\ UNCHANGED <<proxyVars, chatVars>>

\* The handler leaves its try block: the stream is complete, the response
\* is not ok, the network failed or the abort is delivered; finally runs.
StreamSettles(i) ==
  /\ streams[i].pc \in {"fetching", "reading", "aborted"}
  /\ streams' = [streams EXCEPT ![i].pc = "done"]
  /\ streamStopDisabled' = TRUE
  /\ streamAbortController' = 0
  /\ UNCHANGED <<fwdVars, API_DIRECT, mapIn, mapOut, demoRuns, startedVars, latestAutomationPlan, autoRunDisabled, autoRunHidden>>
  /\ UNCHANGED <<proxyVars, chatVars>>

\* streamStopBtn click (the button is enabled).
StopClick ==
  /\ ~streamStopDisabled
  /\ streams' = Abort(streams, streamAbortController)
  /\ streams' # streams
  /\ UNCHANGED <<streamAbortController, streamStopDisabled>>
  /\ UNCHANGED <<fwdVars, API_DIRECT, mapIn, mapOut, demoRuns, startedVars, latestAutomationPlan, autoRunDisabled, autoRunHidden>>
  /\ UNCHANGED <<proxyVars, chatVars>>

StreamNext ==
  \/ StreamSubmit
  \/ StopClick
  \/ \E i \in DOMAIN streams : StreamResponds(i)
  \/ \E i \in DOMAIN streams : StreamChunk(i)
  \/ \E i \in DOMAIN streams : StreamSettles(i)

SpecStream == QuiescentInit /\ [][StreamNext]_vars

(***************************************************************************)
(* The mock plan generators: the catch block of /api/plan in               *)
(* unnamed/part_001 and the /api/plan handler of unnamed/part_002.         *)
(***************************************************************************)
\* Object.entries(sources || {}).filter(([, v]) => !!v).map(([k]) => k)
Enabled(sources) == {k \in DOMAIN sources : sources[k]}

\* part_002: the plan's steps are the {step, action} objects as pushed.
LocalPlanSteps(body) ==
  [k \in 1..Len(MockStepNames(body)) |-> [step |-> MockStepNames(body)[k]]]

\* /api/plan is answered with a mock plan: by part_001 when Python failed and
\* gRPC is ready, by part_002 always.
MockPlanAnswered(server, goal, sources) ==
  LET body == PlanBody(goal, Enabled(sources)) IN
  /\ planIn' = [server |-> server, goal |-> goal, sources |-> sources]
  /\ planOut' = [names |-> MockStepNames(body),
                 steps |-> IF server = "part_001" THEN MockPlan(body).steps
                                                  ELSE LocalPlanSteps(body)]
  /\ UNCHANGED <<pythonEnabled, grpcEnabled, rq, pyFailures, stepFinals, bridgeVars, chatVars, uiVars>>

MockPlanNext ==
  \E server \in {"part_001", "part_002"}, goal \in {"", "g"} :
    \E on \in SUBSET {SourceOrder[k] : k \in DOMAIN SourceOrder} : \E sources \in [on -> BOOLEAN] :
      MockPlanAnswered(server, goal, sources)

SpecMockPlan == QuiescentInit /\ [][MockPlanNext]_vars

(***************************************************************************)
(* Dispatch claims                                                         *)
(***************************************************************************)
Range(f) == {f[x] : x \in DOMAIN f}

Answered(r) == r.pc = "done"

IsError(resp) == resp.status >= 400

\* C1: an /api/index call whose Python attempt was transmitted and then
\* failed with an unknown outcome never reaches the gRPC Indexer.Index; the
\* call is answered with the error.
C1_IndexNeverAdvancesAfterAmbiguous ==
  \A i \in Slots :
    (rq[i].cap = "index" /\ rq[i].py = "ambiguous") =>
      /\ "grpc" \notin Range(rq[i].invoked)
      /\ Answered(rq[i]) /\ IsError(rq[i].resp)

\* C2: a non-2xx answer of the Python service is surfaced at once on
\* /api/index, /api/query, /api/embed and /api/plan: no gRPC call and no
\* mock plan follows it, and the client gets that status.
C2_DeclinedSurfacesWithoutFallback ==
  \A i \in Slots :
    (rq[i].cap \in FallbackCaps \cup {"plan"} /\ rq[i].py \in PyDeclined) =>
      /\ "grpc" \notin Range(rq[i].invoked)
      /\ Answered(rq[i])
      /\ rq[i].resp.status = HttpStatusOf(rq[i].py)
      /\ rq[i].resp.source = "proxy"

PyFailed(r) == r.py \notin {"none", "ok"}

\* C3: /api/query walks Python then gRPC: gRPC is called as soon as an
\* enabled Python attempt has failed in transport, the answer is the result
\* of the first backend that succeeded, and an error is answered only when
\* every enabled backend was tried and failed.
C3_QueryAdvancesUntilSuccess ==
  \A i \in Slots :
    rq[i].cap = "query" =>
      /\ rq[i].invoked \in {<<>>, <<"python">>, <<"grpc">>, <<"python", "grpc">>}
      /\ (rq[i].py \in PyTransportFailures /\ GrpcReady) =>
           "grpc" \in Range(rq[i].invoked)
      /\ "grpc" \in Range(rq[i].invoked) => (~pythonEnabled \/ PyFailed(rq[i]))
      /\ (Answered(rq[i]) /\ rq[i].resp.source = "python") =>
           (rq[i].py = "ok" /\ rq[i].invoked = <<"python">>)
      /\ (Answered(rq[i]) /\ rq[i].resp.source = "grpc") =>
           (rq[i].grpc = "ok" /\ rq[i].py # "ok")
      /\ (Answered(rq[i]) /\ IsError(rq[i].resp)) =>
           /\ pythonEnabled => PyFailed(rq[i])
           /\ GrpcReady => rq[i].grpc = "error"

\* A query answered by gRPC after the Python attempt failed in transport.
C3_Witness ==
  \E i \in Slots :
    /\ rq[i].cap = "query" /\ Answered(rq[i])
    /\ rq[i].py \in PyTransportFailures
    /\ rq[i].invoked = <<"python", "grpc">>
    /\ rq[i].resp.source = "grpc"

\* The backends an endpoint is wired to.
BackendsOf(cap) ==
  CASE cap \in FallbackCaps -> {"python", "grpc"}
    [] cap \in PythonCaps -> {"python"}
    [] OTHER -> {"grpc"}

\* The backend is switched off, or its attempt for this request failed in
\* transport.
DisabledOrUnhealthy(r, b) ==
  IF b = "python"
    THEN ~pythonEnabled \/ r.py \in PyTransportFailures
    ELSE ~GrpcReady \/ r.grpc = "error"

\* The mock plan is the only fallback generator, and only when gRPC is wired.
HasFallbackGenerator(cap) == cap = "plan" /\ GrpcReady

IsUnavailable(resp) ==
  /\ resp.status = 503
  /\ \/ resp.error \in {"assistant_unavailable", "grpc_disabled"}
     \/ resp.details = "python_disabled"

\* C4: an answer is the 'unavailable' outcome exactly when every backend of
\* the endpoint is disabled or unhealthy and no fallback generator exists.
C4_UnavailableIffNoBackend ==
  \A i \in Slots :
    Answered(rq[i]) =>
      (IsUnavailable(rq[i].resp) <=>
         /\ \A b \in BackendsOf(rq[i].cap) : DisabledOrUnhealthy(rq[i], b)
         /\ ~HasFallbackGenerator(rq[i].cap))

(***************************************************************************)
(* Streaming claims                                                        *)
(***************************************************************************)
TerminalCount(evs) == Cardinality({k \in DOMAIN evs : evs[k].type = "done"})

ResponseEnded == cpc = "done"

\* C7: every finished /api/chat response carries exactly one terminal
\* {done:true} event, and it is the last event written.
C7_ExactlyOneTerminalEvent ==
  ResponseEnded =>
    /\ TerminalCount(sent) = 1
    /\ sent[Len(sent)].type = "done"

\* C8: when reader.read() failed after at least one event had been written,
\* the response ends with a terminal event that carries the error.
C8_MidStreamFailureOnTerminal ==
  (ResponseEnded /\ sentAtFail >= 1) =>
    /\ sent # <<>>
    /\ sent[Len(sent)].type = "done"
    /\ sent[Len(sent)].error # ""

\* C9: once the client is gone the upstream body is no longer held open and
\* no token is written any more.
C9_DisconnectCancelsUpstream ==
  ~clientOpen =>
    /\ upstream \notin {"open", "stalled"}
    /\ \A k \in DOMAIN sent : k > sentAtClose => sent[k].type # "token"

\* C10: a stalled upstream leads to a finished response whose terminal event
\* carries an error.
C10_StalledStreamTerminates ==
  (upstream = "stalled") ~>
    (ResponseEnded /\ sent # <<>> /\ sent[Len(sent)].error # "")

(***************************************************************************)
(* Plan approval claims                                                    *)
(***************************************************************************)
\* The execute request of slot i has been handed to the plan executor.
ExecuteRun(r) == r.cap = "execute" /\ "python" \in Range(r.invoked)

Approves(approvals, id) == id \in DOMAIN approvals /\ approvals[id]

\* C5: the plan [s1 (no confirmation), s2 (confirmation)] is executed when
\* the approvals hold s2 = true, and no execute request for it is run when
\* the approval of s2 is false or missing.
C5_ExecuteOnlyWhenApproved ==
  \A i \in Slots :
    (rq[i].cap = "execute" /\ rq[i].body.plan = WithPlan(ExamplePlan)) =>
      LET approved == Approves(ExecutePayload(rq[i].body).approvals, "s2") IN
        /\ ExecuteRun(rq[i]) => approved
        /\ (approved /\ pythonEnabled) => ExecuteRun(rq[i])

\* C6: the approvals executeLatestPlan posts hold the user's answer for every
\* step that requires confirmation, true for every other step, and no key
\* that is not a step id of the posted plan.
C6_ApprovalsCoverPlan ==
  \A i \in Slots :
    rq[i].origin = "uiExec" =>
      LET steps == rq[i].body.plan.steps
          a == rq[i].body.approvals
      IN /\ \A k \in DOMAIN steps :
              /\ steps[k].id \in DOMAIN a
              /\ steps[k].requires_confirmation => a[steps[k].id] = rq[i].answers[k]
              /\ ~steps[k].requires_confirmation => a[steps[k].id] = TRUE
         /\ DOMAIN a \subseteq {steps[k].id : k \in DOMAIN steps}

\* The example plan posted after the user declined s2.
C6_Witness ==
  \E i \in Slots :
    /\ rq[i].origin = "uiExec"
    /\ rq[i].body.plan = WithPlan(ExamplePlan)
    /\ rq[i].answers[2] = FALSE
    /\ rq[i].body.approvals = [id \in {"s1", "s2"} |-> id = "s1"]

(***************************************************************************)
(* Execution claims                                                        *)
(***************************************************************************)
\* The proxy is awaiting the executor's answer for this request.
ExecutionInFlight(r) == r.cap = "execute" /\ r.pc = "python"

\* C11: at any time at most one execution of a given plan is in progress.
C11_AtMostOneExecutionPerPlan ==
  \A i, j \in Slots :
    (i # j /\ ExecutionInFlight(rq[i]) /\ ExecutionInFlight(rq[j])) =>
      rq[i].body.plan # rq[j].body.plan

\* The Run button can be clicked.
RunOffered == ~autoRunDisabled /\ ~autoRunHidden /\ latestAutomationPlan.hasPlan

\* C12: when the answer (or the failure) of an execution reaches the page,
\* the executed plan is not offered for another run.
C12_NoReExecution ==
  [][\A i \in Slots :
       (rq[i].origin = "uiExec" /\ rq[i].pc = "done" /\ rq'[i].pc = "free") =>
         ~(RunOffered' /\ latestAutomationPlan'.steps = rq[i].body.plan.steps)]_vars

(***************************************************************************)
(* Health claims                                                           *)
(***************************************************************************)
\* C13: once HealthK consecutive invocations of the Python backend have
\* failed, no request invokes it (there is no cooldown timer in the model:
\* the next request arrives before any cooldown could have elapsed).
C13_UnhealthyBackendNotInvoked ==
  [][pyFailures >= HealthK =>
       \A i \in Slots :
         ~(rq[i].pc = "free" /\ "python" \in Range(rq'[i].invoked))]_vars

(***************************************************************************)
(* Fallback plan claims                                                    *)
(***************************************************************************)
\* The Python backend was switched off or could not be reached.
PlanBackendFailed(r) == r.py \in PyTransportFailures \cup {"disabled"}

RECURSIVE TokenText(_)
\* The text a client assembles from the token events of a response.
TokenText(evs) ==
  IF evs = <<>> THEN <<>>
  ELSE (IF Head(evs).type = "token" THEN Head(evs).content ELSE <<>>)
         \o TokenText(Tail(evs))

\* No key is configured, or OpenAI failed before a token was forwarded.
NoUpstreamToken == ~apiKey \/ upstream = "none" \/ sentAtFail = 0

\* C15: a finished response of a request that got no token from OpenAI is
\* the complete mock reply, token by token from the mock generator, followed
\* by the done marker.
C15_MockReplyCompletes ==
  (ResponseEnded /\ NoUpstreamToken) =>
    /\ sent # <<>>
    /\ sent[Len(sent)] = DoneEvent
    /\ \A k \in 1..(Len(sent) - 1) : sent[k].type = "token" /\ sent[k].src = "mock"
    /\ TokenText(sent) = ReplyText(LastUser(reqMessages).content)

(***************************************************************************)
(* Configuration claims                                                    *)
(***************************************************************************)
\* C16: no step of a request handler changes pythonEnabled or grpcEnabled,
\* and none consults the configuration at request time to decide whether a
\* backend is used.
C16_AvailabilityDecidedAtStart ==
  [][/\ pythonEnabled' = pythonEnabled
     /\ grpcEnabled' = grpcEnabled
     /\ "request" \notin envReads']_vars

(***************************************************************************)
(* Error envelope claims                                                   *)
(***************************************************************************)
\* The body written to the client carries an error kind.
HasErrorEnvelope(evs) == \E k \in DOMAIN evs : evs[k].error # ""

\* C17: a response that ends on a failing path carries a structured error
\* envelope; its body is not empty.
C17_FailuresAreEnveloped ==
  (ResponseEnded /\ statusCode >= 400) => HasErrorEnvelope(sent)

(***************************************************************************)
(* Endpoint mapping claims                                                 *)
(***************************************************************************)
\* The route of the Python service the proxy forwards an endpoint to.
ProxyForwards(p) ==
  CASE p = <<"api", "plan">> -> <<"v1", "task">>
    [] p = <<"api", "task", "execute">> -> <<"v1", "task", "execute">>
    [] p = <<"api", "documents">> -> <<"v1", "documents">>
    [] p = <<"api", "index">> -> <<"v1", "index">>
    [] p = <<"api", "query">> -> <<"v1", "query">>
    [] p = <<"api", "embed">> -> <<"v1", "embed">>
    [] OTHER -> <<>>

C19_FallbackIsDeterministic ==
  \A i, j \in DOMAIN demoRuns :
    demoRuns[i].prompt = demoRuns[j].prompt => demoRuns[i].answer = demoRuns[j].answer

(***************************************************************************)
(* Plan outcome claims                                                     *)
(***************************************************************************)
\* The three worked examples of the aggregation rules.
AggregationExamples ==
  /\ stepFinals = <<"Succeeded", "Failed">> =>
       PlanStatuses(stepFinals) = {"PartiallyFailed"}
  /\ stepFinals = <<"Succeeded", "Succeeded">> =>
       PlanStatuses(stepFinals) = {"Completed"}
  /\ stepFinals = <<"Failed">> => PlanStatuses(stepFinals) = {"Failed"}

C21_FixedPriorityOneResponse ==
  \A i \in Slots :
    rq[i].cap \in FallbackCaps =>
      /\ rq[i].invoked \in {<<>>, <<"python">>, <<"grpc">>, <<"python", "grpc">>}
      /\ "grpc" \in Range(rq[i].invoked) => (~pythonEnabled \/ PyFailed(rq[i]))
      /\ rq[i].py = "ok" => "grpc" \notin Range(rq[i].invoked)
      /\ rq[i].nresp = (IF Answered(rq[i]) THEN 1 ELSE 0)

\* An index request answered by gRPC after its Python attempt failed.
C21_Witness ==
  \E i \in Slots :
    /\ rq[i].cap = "index" /\ Answered(rq[i])
    /\ rq[i].invoked = <<"python", "grpc">>
    /\ PyFailed(rq[i]) /\ rq[i].grpc = "ok"
    /\ rq[i].nresp = 1

(***************************************************************************)
(* Bridge claims                                                           *)
(***************************************************************************)
BridgeTerminals(evs) == Cardinality({k \in DOMAIN evs : evs[k].type \in {"done", "error"}})

\* C22: whatever the order of the call's events, the bridge writes at most
\* one terminal event, exactly one once the response is ended, ends the
\* response at most once and writes nothing after the end.
C22_BridgeOneTerminalEvent ==
  bpc = "open" =>
    /\ BridgeTerminals(bout) <= 1
    /\ bended <= 1
    /\ blate = 0
    /\ bended = 1 => BridgeTerminals(bout) = 1

(***************************************************************************)
(* Stream parsing claims                                                   *)
(***************************************************************************)
\* C23: however the transport cuts the stream into chunks, once the whole
\* stream was read the loop has delivered every upstream event exactly once,
\* in order, and at no time anything but a prefix of them.
C23_EveryEventDeliveredOnce ==
  /\ \E k \in 0..Len(pevents) : pgot = SubSeq(pevents, 1, k)
  /\ ptext = <<>> => pgot = pevents

(***************************************************************************)
(* Token source claims                                                     *)
(***************************************************************************)
\* C24: all token events of one /api/chat response come from one source:
\* no token of the mock generator follows a token forwarded from OpenAI.
C24_SingleTokenSource ==
  \A j, k \in DOMAIN sent :
    (sent[j].type = "token" /\ sent[k].type = "token") => sent[j].src = sent[k].src

(***************************************************************************)
(* Forwarded body claims                                                   *)
(***************************************************************************)
\* C25: when /api/index falls back from Python to gRPC, the gRPC backend
\* receives the document id and the text the Python backend received.
C25_FallbackSameOperation ==
  fwdOp = "index-fallback" =>
    /\ fwdSecond.id = fwdFirst.document_id
    /\ fwdSecond.text = fwdFirst.text

\* C26: for each form of the page, FastAPI receives the same body in direct
\* mode as through the proxy.
C26_DirectEqualsProxied ==
  fwdOp \in {"plan", "execute", "index", "query"} => fwdSecond = fwdFirst

(***************************************************************************)
(* Stream inspector claims                                                 *)
(***************************************************************************)
\* C27: while a stream request is in flight, streamAbortController is that
\* request's controller and the Stop button is enabled.
C27_InFlightStreamIsStoppable ==
  \A i \in DOMAIN streams :
    streams[i].pc \in {"fetching", "reading"} =>
      streamAbortController = i /\ ~streamStopDisabled

(***************************************************************************)
(* Latest plan claims                                                      *)
(***************************************************************************)
\* C28: once no plan or execute request of the page is in flight any more,
\* latestAutomationPlan is the answer of the most recently started one (here:
\* whenever that one was answered with a 2xx).
C28_LatestPlanIsLatestRequest ==
  (lastAnswer.set /\ \A i \in Slots : rq[i].origin \notin {"uiPlan", "uiExec"}) =>
    latestAutomationPlan = lastAnswer.payload

(***************************************************************************)
(* Mock reply text claims                                                  *)
(***************************************************************************)
\* A finished response whose tokens all came from the mock generator.
IsMockResponse ==
  /\ cpc = "done"
  /\ \E k \in DOMAIN sent : sent[k].type = "token"
  /\ \A k \in DOMAIN sent : sent[k].type = "token" => sent[k].src = "mock"

UserPositions(m) ==
  IF m.isArray THEN {k \in DOMAIN m.items : ~m.items[k].isNull /\ m.items[k].role = "user"} ELSE {}

MostRecentUser(m) ==
  m.items[CHOOSE k \in UserPositions(m) : \A j \in UserPositions(m) : j <= k].content

\* C29 as stated: the tokens of a mock response concatenate to the reply,
\* which echoes the content of the most recent 'user' message, or is the
\* greeting when the request has no 'user' message.
C29_MockReplyEchoesLastUser ==
  IsMockResponse =>
    TokenText(sent) =
      IF UserPositions(reqMessages) # {}
        THEN ReplyPrefix \o MostRecentUser(reqMessages) \o ReplySuffix
        ELSE Greeting

\* C29 amended: ... or is the greeting when the request has no 'user'
\* message or the content of the most recent one is empty.
C29_MockReplyEchoesNonEmptyLastUser ==
  IsMockResponse =>
    TokenText(sent) =
      IF UserPositions(reqMessages) # {} /\ MostRecentUser(reqMessages) # <<>>
        THEN ReplyPrefix \o MostRecentUser(reqMessages) \o ReplySuffix
        ELSE Greeting

C29_Witness ==
  /\ IsMockResponse
  /\ UserPositions(reqMessages) # {}
  /\ MostRecentUser(reqMessages) = <<"a", " ", "b">>
  /\ Len(sent) > Len(SplitKeep(MostRecentUser(reqMessages)))

(***************************************************************************)
(* Mock plan claims                                                        *)
(***************************************************************************)
\* C30: a mock plan has at least one step, the ids of its steps are mock-1
\* to mock-n in order (so pairwise distinct), no step requires confirmation,
\* and its steps are the goal step and the enabled sources in the order
\* goal, email, calendar, messages, browser (the Idle step when there is
\* neither).
C30_MockPlanWellFormed ==
  planIn # <<>> =>
    LET st == planOut.steps
        expected == (IF planIn.goal # "" THEN {"Understand goal"} ELSE {})
                      \cup {k \in DOMAIN planIn.sources : planIn.sources[k]}
    IN  /\ Len(st) >= 1
        /\ \A k \in DOMAIN st : "id" \in DOMAIN st[k] /\ st[k].id = MockIds[k]
        /\ \A j, k \in DOMAIN st : j # k => st[j].id # st[k].id
        /\ \A k \in DOMAIN st :
             "requires_confirmation" \in DOMAIN st[k] => ~st[k].requires_confirmation
        /\ planOut.names =
             IF expected = {} THEN <<"Idle">>
             ELSE SelectSeq(<<"Understand goal">> \o SourceOrder, LAMBDA x : x \in expected)

====
